---- MODULE Spec2Model ----
(***************************************************************************)
(* Model of generate_tw_focus.py: the collection loop over the device     *)
(* files (devices_map, final_list, all_brands), the staleness test        *)
(* (is_abandoned_mad, get_max_interval and the caller's is_abandoned) and  *)
(* version_to_tuple.                                                       *)
(*                                                                         *)
(* Strings.  TLA+ strings are ASCII, so every CJK character of the source  *)
(* is written as its pinyin syllable; a Python str that the code takes     *)
(* apart (branch names, version strings) is a sequence of one-character    *)
(* strings, and a str the code only stores or compares is a TLA+ string.   *)
(*                                                                         *)
(* Release strings.  A 'release' value is modelled by its rank in Python's *)
(* string order among the strings of ReleaseTable, which is the order the  *)
(* sorts of the code compare by; Strptime gives the date the code parses   *)
(* from it, in days since 1970-01-01, or NoDate when strptime raises.      *)
(***************************************************************************)
EXTENDS Integers, Sequences, FiniteSets, TLC

VARIABLES
    json_files,     \* SpecBatch: the files glob returned, in glob's order
    nfiles,         \* number of files the loop of line 124 has taken
    branches,       \* the branches of the current file taken so far, in order
    pc,             \* position of the script
    device_code,    \* device_code of the file being processed
    devices_map,    \* dict code -> entry, in insertion order
    final_list,     \* the filtered, sorted list
    all_brands,     \* set of brands of final_list
    now_tw,         \* SpecStale: today, in days since 1970-01-01 (line 10)
    tw_history,     \* SpecStale: device['tw']['history'] of the card (line 372)
    days_ago,       \* SpecStale: days since the latest target build (line 378)
    max_interval,   \* SpecStale: line 379
    mad_result,     \* SpecStale: what is_abandoned_mad returned at line 380
    is_abandoned,   \* SpecStale: line 380
    v_str,          \* SpecVersion: the argument of version_to_tuple
    v_tuple         \* SpecVersion: its result

vars == <<json_files, nfiles, branches, pc, device_code, devices_map,
          final_list, all_brands, now_tw, tw_history, days_ago, max_interval,
          mad_result, is_abandoned, v_str, v_tuple>>

collect_vars == <<json_files, nfiles, branches, device_code, devices_map,
                  final_list, all_brands>>
stale_vars == <<now_tw, tw_history, days_ago, max_interval, mad_result, is_abandoned>>
version_vars == <<v_str, v_tuple>>

(***************************************************************************)
(* Python values                                                           *)
(***************************************************************************)
\* An optional object (None or a dict) is a sequence of length 0 or 1.
None == <<>>
Some(x) == <<x>>

\* The key is absent from the JSON object, so dict.get returns its default:
\* NoField for a str field, NoName for a branch name (a sequence of
\* characters), NoRelease for a release (a rank).
NoField == "<no field>"
NoName == <<"<no field>">>
NoRelease == -1
NoDate == -1                \* strptime raised

\* dict.get(key, default), for a str field, a branch name and a release
GetStr(field, default) == IF field = NoField THEN default ELSE field
GetName(field, default) == IF field = NoName THEN default ELSE field
GetRelease(field, default) == IF field = NoRelease THEN default ELSE field

\* bool(s) of a str
Truthy(s) == s # ""

(***************************************************************************)
(* Bounds                                                                  *)
(***************************************************************************)
MaxFiles == 2       \* files per run
MaxBranches == 2    \* branches per file
MaxRoms == 2        \* builds per branch

(***************************************************************************)
(* Release strings (lines 63, 170, 174, 198, 202)                          *)
(*   rank 0  ""            strptime raises                                 *)
(*   rank 1  "1970-01-01"  day 0, the default of line 170                  *)
(*   rank 2  "1970-01-31"  day 30                                          *)
(*   rank 3  "1970-03-02"  day 60                                          *)
(*   rank 4  "1970-04-01"  day 90                                          *)
(*   rank 5  "1970-1-20"   day 19: strptime accepts the unpadded month,    *)
(*                         and "1970-1..." sorts after every "1970-0..."   *)
(***************************************************************************)
ReleaseTable == <<NoDate, 0, 30, 60, 90, 19>>
Releases == 0..(Len(ReleaseTable) - 1)
DefaultRelease == 1

\* datetime.strptime(release, "%Y-%m-%d"), as days since 1970-01-01
Strptime(release) == ReleaseTable[release + 1]

(***************************************************************************)
(* list.sort(key=..., reverse=True): stable, so items with equal keys keep *)
(* their relative order.  keys[i] is the key of items[i].                  *)
(***************************************************************************)
SortPosition(keys, i) ==
    1 + Cardinality({j \in 1..Len(keys) : keys[j] > keys[i]})
      + Cardinality({j \in 1..(i - 1) : keys[j] = keys[i]})

SortReverse(items, keys) ==
    [p \in 1..Len(items) |->
        items[CHOOSE i \in 1..Len(items) : SortPosition(keys, i) = p]]

(***************************************************************************)
(* Branch names (lines 18-19, 33-55).  Characters, in pinyin:              *)
(*   xiao mi peng pai " " O S " "   the common prefix                      *)
(*   zhong guo tai wan sheng zheng shi ban   "China Taiwan release"        *)
(*   guo ji zheng shi ban                    "international release"       *)
(* a character of the traditional script carries the suffix _t.            *)
(***************************************************************************)
Prefix == <<"xiao", "mi", "peng", "pai", " ", "O", "S", " ">>
ZhengShiBan == <<"zheng", "shi", "ban">>
Ban == <<"ban">>
TARGET_TW == Prefix \o <<"zhong", "guo", "tai", "wan", "sheng">> \o ZhengShiBan
TARGET_GLOBAL == Prefix \o <<"guo", "ji">> \o ZhengShiBan

\* REGION_MAPPING, in the dict's order: <<simplified, traditional>>
REGION_MAPPING == <<
    << <<"ou", "zhou">>, <<"ou_t", "zhou">> >>,
    << <<"e_ru", "luo", "si">>, <<"e_ru", "luo_t", "si">> >>,
    << <<"yin", "du", "ni", "xi", "ya">>, <<"yin", "ni">> >>,
    << <<"tu", "er", "qi">>, <<"tu", "er", "qi">> >>,
    << <<"han", "guo">>, <<"han_t", "guo_t">> >>,
    << <<"zhong", "guo", "da", "lu">>, <<"zhong", "guo_t">> >>,
    << <<"zhong", "guo">>, <<"zhong", "guo_t">> >>,
    << <<"yan", "shi_show", "ji_machine">>, <<"yan", "shi_show", "ji_t">> >>,
    << <<"yun", "ying", "shang">>, <<"dian", "xin", "shang">> >>,
    << <<"ding", "zhi">>, <<"ke", "zhi_t">> >>,
    << <<"zheng_gov", "qi_ent", "biao", "zhun">>, <<"zheng_gov", "qi_ent", "biao_t", "zhun_t">> >>,
    << <<"zheng_gov", "qi_ent">>, <<"zheng_gov", "qi_ent">> >>
>>

\* str.replace(old, new): every non-overlapping occurrence, left to right
RECURSIVE Replace(_, _, _)
Replace(s, old, new) ==
    IF Len(s) < Len(old) THEN s
    ELSE IF SubSeq(s, 1, Len(old)) = old
         THEN new \o Replace(SubSeq(s, Len(old) + 1, Len(s)), old, new)
         ELSE <<Head(s)>> \o Replace(Tail(s), old, new)

\* str.strip(): leading and trailing whitespace removed
RECURSIVE LStrip(_, _)
LStrip(s, c) == IF s # <<>> /\ Head(s) = c THEN LStrip(Tail(s), c) ELSE s
RECURSIVE RStrip(_, _)
RStrip(s, c) ==
    IF s # <<>> /\ s[Len(s)] = c THEN RStrip(SubSeq(s, 1, Len(s) - 1), c) ELSE s
Strip(s, c) == RStrip(LStrip(s, c), c)

\* the for loop of lines 53-54 over REGION_MAPPING.items(), from entry i on
RECURSIVE ReplaceMapped(_, _)
ReplaceMapped(processed_name, i) ==
    IF i > Len(REGION_MAPPING) THEN processed_name
    ELSE ReplaceMapped(
            Replace(processed_name, REGION_MAPPING[i][1], REGION_MAPPING[i][2]),
            i + 1)

get_region_label(branch_name_zh) ==
    LET name == Replace(branch_name_zh, Prefix, <<>>)
        core_name == Strip(Replace(Replace(name, ZhengShiBan, <<>>), Ban, <<>>), " ")
        hits == {i \in 1..Len(REGION_MAPPING) : REGION_MAPPING[i][1] = core_name}
    IN  IF name = ZhengShiBan THEN <<"zhong", "guo_t">>
        ELSE IF name = <<"kai", "fa", "ban">> THEN <<"kai_t", "fa_t", "ban">>
        ELSE IF name = <<"B", "e", "t", "a">> THEN <<"B", "e", "t", "a">>
        ELSE IF hits # {} THEN REGION_MAPPING[CHOOSE i \in hits : TRUE][2]
        ELSE IF core_name = <<"E", "E", "A">> THEN <<"ou_t", "zhou", " ", "E", "E", "A">>
        ELSE IF core_name = <<"ou", "zhou", "E", "E", "A">>
             THEN <<"ou_t", "zhou", " ", "E", "E", "A">>
        ELSE ReplaceMapped(core_name, 1)

(***************************************************************************)
(* The collection loop (lines 119-191).                                    *)
(*                                                                         *)
(* A file is a record data = [load_error, name, device, branches]:         *)
(*   load_error  open, json.load or the .get calls of lines 129-130 raise  *)
(*   name        data['name']['zh'], or NoField                            *)
(*   device      data['device'], or NoField                                *)
(* A branch is a record [fault, name, brand, roms]:                        *)
(*   fault  "branch": the entry is no JSON object, branch.get raises at    *)
(*          line 144; "roms": a value of roms is no JSON object or the     *)
(*          releases do not compare, lines 166-174 raise (the roms field   *)
(*          of the record is then not read); "none"                        *)
(*   name   branch['name']['zh'], or NoName                                *)
(*   brand  branch['brand'], or NoField                                    *)
(*   roms   the items of branch['roms'] in the dict's order, each          *)
(*          [k, v] with v = [os, android, release], a field or its No...   *)
(***************************************************************************)
\* lines 133-140
NewEntry(device_name, code) ==
    [name |-> device_name, code |-> code, brand |-> "Other",
     tw |-> None, global |-> None, others |-> <<>>]

HasKey(map, code) == \E i \in 1..Len(map) : map[i].code = code
KeyIndex(map, code) == CHOOSE i \in 1..Len(map) : map[i].code = code

\* lines 129-140: the entry of the file's device exists afterwards
Load(map, data) ==
    LET device_name == GetStr(data.name, "Unknown Device")
        code == GetStr(data.device, "")
    IN  IF HasKey(map, code) THEN map ELSE Append(map, NewEntry(device_name, code))

\* lines 146-157
TargetType(branch_name_zh) ==
    IF branch_name_zh = TARGET_TW THEN "tw"
    ELSE IF branch_name_zh = TARGET_GLOBAL THEN "global"
    ELSE "other"

\* mutant of BrandAfter: the brand is taken from a branch of any type
BrandAfterAnyBranch(brand_before, target_type, brand_field) ==
    LET brand == GetStr(brand_field, "Xiaomi")
    IN  IF Truthy(brand) THEN brand ELSE brand_before

\* lines 149-153: the device's brand after the branch was classified
BrandAfter(brand_before, target_type, brand_field) ==
    LET brand == GetStr(brand_field, "Xiaomi")
    IN  IF target_type = "tw" /\ Truthy(brand) THEN brand ELSE brand_before

\* mutant of BranchLabel: the label is what get_region_label returned, empty
\* or not
BranchLabelUnguarded(target_type, branch_name_zh) ==
    IF target_type = "other" THEN get_region_label(branch_name_zh) ELSE <<>>

\* lines 147, 158-160
BranchLabel(target_type, branch_name_zh) ==
    IF target_type = "other"
    THEN LET branch_label == get_region_label(branch_name_zh)
         IN  IF branch_label = <<>> THEN branch_name_zh ELSE branch_label
    ELSE <<>>

\* lines 166-173: one build per item of roms
Rom(k, v) ==
    [os |-> GetStr(v.os, k), android |-> GetStr(v.android, ""),
     release |-> GetRelease(v.release, DefaultRelease)]

\* mutant of RomList: the builds stay in the order of the roms dict
RomListUnsorted(roms) ==
    [i \in 1..Len(roms) |-> Rom(roms[i].k, roms[i].v)]

\* lines 166-174
RomList(roms) ==
    LET rom_list == [i \in 1..Len(roms) |-> Rom(roms[i].k, roms[i].v)]
    IN  SortReverse(rom_list, [i \in 1..Len(roms) |-> rom_list[i].release])

\* lines 177-180
InfoObj(rom_list) == [latest |-> rom_list[1], history |-> rom_list]

\* mutant of Store: a second target or reference timeline is merged into
\* the first
StoreMerging(entry, target_type, info_obj, branch_label) ==
    LET merged(slot) ==
            IF slot = None THEN Some(info_obj)
            ELSE Some([latest |-> slot[1].latest,
                       history |-> slot[1].history \o info_obj.history])
    IN  IF target_type = "tw" THEN [entry EXCEPT !.tw = merged(@)]
        ELSE IF target_type = "global" THEN [entry EXCEPT !.global = merged(@)]
        ELSE [entry EXCEPT !.others = Append(@,
                [latest |-> info_obj.latest, history |-> info_obj.history,
                 label |-> branch_label])]

\* lines 182-188
Store(entry, target_type, info_obj, branch_label) ==
    IF target_type = "tw" THEN [entry EXCEPT !.tw = Some(info_obj)]
    ELSE IF target_type = "global" THEN [entry EXCEPT !.global = Some(info_obj)]
    ELSE [entry EXCEPT !.others = Append(@,
            [latest |-> info_obj.latest, history |-> info_obj.history,
             label |-> branch_label])]

\* lines 162-188: what a branch with these roms does to the entry
StoreRoms(entry, target_type, roms, branch_label) ==
    IF roms = <<>> THEN entry
    ELSE Store(entry, target_type, InfoObj(RomList(roms)), branch_label)

\* lines 143-188, one iteration of the loop over the branches: the entry
\* afterwards, and whether the iteration raised
BranchBody(entry, branch) ==
    IF branch.fault = "branch" THEN [raised |-> TRUE, entry |-> entry]
    ELSE LET branch_name_zh == GetName(branch.name, <<>>)
             target_type == TargetType(branch_name_zh)
             branded == [entry EXCEPT
                            !.brand = BrandAfter(@, target_type, branch.brand)]
             branch_label == BranchLabel(target_type, branch_name_zh)
         IN  IF branch.fault = "roms" THEN [raised |-> TRUE, entry |-> branded]
             ELSE [raised |-> FALSE,
                   entry |-> StoreRoms(branded, target_type, branch.roms, branch_label)]

(***************************************************************************)
(* Filter and sort (lines 193-202)                                         *)
(***************************************************************************)
\* mutant of Retained: a device is kept only with a reference timeline too
RetainedWithReference(info) == info.tw # None /\ info.global # None

\* line 196
Retained(info) == info.tw # None

\* lines 197-198
SortOthers(info) ==
    [info EXCEPT !.others =
        SortReverse(@, [i \in 1..Len(@) |-> @[i].latest.release])]

\* devices_map after the loop of lines 195-200 sorted the others in place
OthersSorted(map) ==
    [i \in 1..Len(map) |-> IF Retained(map[i]) THEN SortOthers(map[i]) ELSE map[i]]

\* mutant of FinalSort: the list stays in the order of devices_map
FinalSortSkipped(list) == list

\* line 202
FinalSort(list) ==
    SortReverse(list, [i \in 1..Len(list) |-> list[i].tw[1].latest.release])

\* lines 194-202
FinalList(map) == FinalSort(SelectSeq(OthersSorted(map), Retained))

\* line 200
AllBrands(list) == {list[i].brand : i \in 1..Len(list)}

(***************************************************************************)
(* Inputs of the collection runs                                           *)
(***************************************************************************)
EU_NAME == Prefix \o <<"ou", "zhou", "ban">>
BranchNames == {TARGET_TW, TARGET_GLOBAL, EU_NAME}
BrandFields == {NoField, "", "Redmi"}

\* the items of a roms dict, in the dict's order: no os or android field, the
\* first without a release, so that the sort of line 174 has to move it
RomItems == <<
    [k |-> "OS1.0.1", v |-> [os |-> NoField, android |-> NoField, release |-> NoRelease]],
    [k |-> "OS1.0.2", v |-> [os |-> NoField, android |-> NoField, release |-> 3]],
    [k |-> "OS1.0.3", v |-> [os |-> NoField, android |-> NoField, release |-> 2]] >>

\* the roms dicts: the first n items, n = 0 (an empty dict) up to MaxRoms
RomsChoices == {SubSeq(RomItems, 1, n) : n \in 0..MaxRoms}

Branches ==
    {[fault |-> "branch", name |-> NoName, brand |-> NoField, roms |-> <<>>]}
    \cup {[fault |-> "roms", name |-> n, brand |-> b, roms |-> <<>>] :
            n \in BranchNames, b \in BrandFields}
    \cup {[fault |-> "none", name |-> n, brand |-> b, roms |-> r] :
            n \in BranchNames, b \in BrandFields, r \in RomsChoices}

DeviceNames == {"Mi 14"}
DeviceCodes == {NoField, "houji"}
FileHeads ==
    {[load_error |-> TRUE, name |-> NoField, device |-> NoField]}
    \cup {[load_error |-> FALSE, name |-> n, device |-> d] :
            n \in DeviceNames, d \in DeviceCodes}

(***************************************************************************)
(* The script as a state machine.  pc = "files": at the head of the loop   *)
(* of line 124; "branches": at the head of the loop of line 143; "done":   *)
(* after line 202.                                                         *)
(***************************************************************************)
IdleStale ==
    /\ now_tw = 0
    /\ tw_history = <<>>
    /\ days_ago = 0
    /\ max_interval = 0
    /\ mad_result = FALSE
    /\ is_abandoned = FALSE
IdleVersion == /\ v_str = <<>> /\ v_tuple = <<>>

IdleCollect ==
    /\ nfiles = 0
    /\ branches = <<>>
    /\ device_code = ""
    /\ devices_map = <<>>
    /\ final_list = <<>>
    /\ all_brands = {}

CollectInit ==
    /\ pc = "files"
    /\ IdleCollect
    /\ IdleStale
    /\ IdleVersion

\* lines 124-142 for one file
OpenWith(data) ==
    /\ pc = "files"
    /\ nfiles' = nfiles + 1
    /\ IF data.load_error
       THEN /\ pc' = "files"
            /\ UNCHANGED <<branches, device_code, devices_map>>
       ELSE /\ devices_map' = Load(devices_map, data)
            /\ device_code' = GetStr(data.device, "")
            /\ branches' = <<>>
            /\ pc' = "branches"
    /\ UNCHANGED <<json_files, final_list, all_brands, stale_vars, version_vars>>

\* lines 143-191 for one branch of the current file; an exception leaves the
\* loop over the branches for the handler of line 190
TakeWith(branch) ==
    /\ pc = "branches"
    /\ LET i == KeyIndex(devices_map, device_code)
           body == BranchBody(devices_map[i], branch)
       IN  /\ devices_map' = [devices_map EXCEPT ![i] = body.entry]
           /\ pc' = IF body.raised THEN "files" ELSE "branches"
    /\ branches' = Append(branches, branch)
    /\ UNCHANGED <<json_files, nfiles, device_code, final_list, all_brands,
                   stale_vars, version_vars>>

\* the loop of line 143 is exhausted
EndOfBranches ==
    /\ pc = "branches"
    /\ pc' = "files"
    /\ UNCHANGED <<collect_vars, stale_vars, version_vars>>

\* lines 193-202, once the loop of line 124 is exhausted
FilterAndSort ==
    /\ pc = "files"
    /\ devices_map' = OthersSorted(devices_map)
    /\ final_list' = FinalList(devices_map)
    /\ all_brands' = AllBrands(FinalList(devices_map))
    /\ pc' = "done"
    /\ UNCHANGED <<json_files, nfiles, branches, device_code, stale_vars,
                   version_vars>>

(***************************************************************************)
(* Spec: the files and their branches are chosen as the loops take them.   *)
(***************************************************************************)
Init == /\ json_files = <<>>
        /\ CollectInit

OpenFile == /\ nfiles < MaxFiles
            /\ \E data \in FileHeads : OpenWith(data)

TakeBranch == /\ Len(branches) < MaxBranches
              /\ \E branch \in Branches : TakeWith(branch)

Next == OpenFile \/ TakeBranch \/ EndOfBranches \/ FilterAndSort

Spec == Init /\ [][Next]_vars

(***************************************************************************)
(* SpecBatch: the whole input is fixed at the start, as glob returns it.   *)
(* A file carries its branches: [load_error, name, device, branches].      *)
(***************************************************************************)
\* sequences over S of length at most n
SeqsUpTo(S, n) == UNION {[1..m -> S] : m \in 0..n}

\* a branch that is no JSON object, and the target and other branches without
\* a brand field whose roms raise or hold builds
BatchBranches ==
    {b \in Branches :
        /\ b.brand = NoField
        /\ b.name # TARGET_GLOBAL
        /\ b.fault = "none" => b.roms # <<>>}

BatchFiles ==
    {[load_error |-> TRUE, name |-> NoField, device |-> NoField, branches |-> <<>>]}
    \cup {[load_error |-> FALSE, name |-> n, device |-> d, branches |-> bs] :
            n \in DeviceNames, d \in DeviceCodes,
            bs \in SeqsUpTo(BatchBranches, MaxBranches)}

InitBatch == /\ json_files \in SeqsUpTo(BatchFiles, MaxFiles)
             /\ CollectInit

OpenNextFile == /\ nfiles < Len(json_files)
                /\ OpenWith(json_files[nfiles + 1])

TakeNextBranch ==
    /\ pc = "branches"
    /\ Len(branches) < Len(json_files[nfiles].branches)
    /\ TakeWith(json_files[nfiles].branches[Len(branches) + 1])

EndOfFileBranches ==
    /\ pc = "branches"
    /\ Len(branches) = Len(json_files[nfiles].branches)
    /\ EndOfBranches

FilterAndSortAll == /\ nfiles = Len(json_files)
                    /\ FilterAndSort

NextBatch == OpenNextFile \/ TakeNextBranch \/ EndOfFileBranches \/ FilterAndSortAll

SpecBatch == InitBatch /\ [][NextBatch]_vars

(***************************************************************************)
(* The loops of lines 124-202 as a function of the list of files           *)
(***************************************************************************)
\* lines 143-191: the entry after the branches bs, up to the first that raises
RECURSIVE RunBranches(_, _)
RunBranches(entry, bs) ==
    IF bs = <<>> THEN entry
    ELSE LET body == BranchBody(entry, Head(bs))
         IN  IF body.raised THEN body.entry ELSE RunBranches(body.entry, Tail(bs))

\* lines 125-191 for one file
RunFile(map, data) ==
    IF data.load_error THEN map
    ELSE LET loaded == Load(map, data)
             i == KeyIndex(loaded, GetStr(data.device, ""))
         IN  [loaded EXCEPT ![i] = RunBranches(@, data.branches)]

\* lines 124-191
RECURSIVE RunFiles(_, _)
RunFiles(map, files) ==
    IF files = <<>> THEN map ELSE RunFiles(RunFile(map, Head(files)), Tail(files))

\* final_list for the files in this order
Collected(files) == FinalList(RunFiles(<<>>, files))

(***************************************************************************)
(* Staleness (lines 58-111 and the caller, lines 376-383).                 *)
(*                                                                         *)
(* statistics.median of an even number of values is the mean of the two    *)
(* middle ones, so medians are kept doubled: Median2 is twice the median,  *)
(* Mad4 four times the MAD.  score > 4, that is                            *)
(*   (days_since_last - median_val) / (1.4826 * mad_adj) > 4,              *)
(* is  (2*days_since_last - median2) * 5000 > 14826 * mad_adj4  in         *)
(* integers.  The two sides are equal only when mad_adj4 is a multiple of  *)
(* 2500, far above any gap of ReleaseTable, so the rounding of the float   *)
(* division never decides the comparison.                                  *)
(***************************************************************************)
\* lines 58-66: the dates that parse, in the order of the history
RECURSIVE parse_history_dates(_)
parse_history_dates(history_list) ==
    IF history_list = <<>> THEN <<>>
    ELSE LET date == Strptime(Head(history_list).release)
             rest == parse_history_dates(Tail(history_list))
         IN  IF date = NoDate THEN rest ELSE <<date>> \o rest

\* mutant of Intervals: negative gaps are kept
IntervalsUnfiltered(dates) == [i \in 1..(Len(dates) - 1) |-> dates[i] - dates[i + 1]]

\* lines 77-81 and 102-106: the gaps that are not negative
RECURSIVE IntervalsFrom(_, _)
IntervalsFrom(dates, i) ==
    IF i > Len(dates) - 1 THEN <<>>
    ELSE LET days == dates[i] - dates[i + 1]
         IN  (IF days >= 0 THEN <<days>> ELSE <<>>) \o IntervalsFrom(dates, i + 1)
Intervals(dates) == IntervalsFrom(dates, 1)

\* twice statistics.median(xs), xs not empty
Median2(xs) ==
    LET sorted == SortReverse(xs, xs)
        n == Len(xs)
    IN  IF n % 2 = 1 THEN 2 * sorted[(n + 1) \div 2]
        ELSE sorted[n \div 2] + sorted[n \div 2 + 1]

Abs(x) == IF x < 0 THEN -x ELSE x

\* line 87: four times the median of abs(x - median_val)
Mad4(intervals, median2) ==
    Median2([i \in 1..Len(intervals) |-> Abs(2 * intervals[i] - median2)])

\* mutant of MadAdj4: the MAD is not floored
MadAdj4Unfloored(mad4) == mad4

\* line 88: four times max(mad, 1)
MadAdj4(mad4) == IF mad4 > 4 THEN mad4 ELSE 4

\* lines 89-91: score > 4
ScoreOver4(days_since_last, median2, mad_adj4) ==
    (2 * days_since_last - median2) * 5000 > 14826 * mad_adj4

\* lines 68-91
is_abandoned_mad(history_list, days_since_last) ==
    IF Len(history_list) < 2 THEN FALSE
    ELSE LET dates == parse_history_dates(history_list)
             intervals == Intervals(dates)
             median2 == Median2(intervals)
         IN  IF Len(dates) < 2 THEN FALSE
             ELSE IF intervals = <<>> THEN FALSE
             ELSE ScoreOver4(days_since_last, median2, MadAdj4(Mad4(intervals, median2)))

\* max(xs), xs not empty
Max(xs) == CHOOSE m \in {xs[i] : i \in 1..Len(xs)} : \A i \in 1..Len(xs) : xs[i] <= m

\* lines 93-111
get_max_interval(history_list) ==
    IF Len(history_list) < 2 THEN 0
    ELSE LET dates == parse_history_dates(history_list)
             intervals == Intervals(dates)
         IN  IF Len(dates) < 2 THEN 0
             ELSE IF intervals = <<>> THEN 0
             ELSE Max(intervals)

\* mutant of IsAbandoned: the absolute threshold of 100 days
IsAbandonedOver100(mad, interval, days) == mad \/ days > 100

\* line 380
IsAbandoned(mad, interval, days) == mad \/ (interval > 0 /\ days > 2 * interval)

(***************************************************************************)
(* SpecStale: the header of one device card (lines 368-394), for a target  *)
(* history as the collection leaves it and a day on which the script runs. *)
(***************************************************************************)
MaxHistory == 4     \* builds in the target history
MaxToday == 220     \* the days on which the script runs: 0..MaxToday
LateToday == 490    \* and one day long after the last release

\* the histories of n builds: sorted by release string, newest first
HistoriesOfLen(n) ==
    {[i \in 1..n |-> [os |-> RomItems[1].k, android |-> "", release |-> rel[i]]] :
     rel \in {r \in [1..n -> Releases] : \A i \in 1..(n - 1) : r[i] >= r[i + 1]}}
Histories == UNION {HistoriesOfLen(n) : n \in 1..MaxHistory}

InitStale ==
    /\ pc = "card"
    /\ tw_history \in Histories
    /\ now_tw \in (0..MaxToday) \cup {LateToday}
    /\ days_ago = 0
    /\ max_interval = 0
    /\ mad_result = FALSE
    /\ is_abandoned = FALSE
    /\ json_files = <<>>
    /\ IdleCollect
    /\ IdleVersion

\* lines 369-394: strptime of the latest release raises and the card gets no
\* marker, or the verdict is computed
CardHeader ==
    /\ pc = "card"
    /\ LET tw_dt == Strptime(tw_history[1].release)
       IN  IF tw_dt = NoDate
           THEN /\ pc' = "no marker"
                /\ UNCHANGED <<days_ago, max_interval, mad_result, is_abandoned>>
           ELSE /\ pc' = "marked"
                /\ days_ago' = now_tw - tw_dt
                /\ max_interval' = get_max_interval(tw_history)
                /\ mad_result' = is_abandoned_mad(tw_history, now_tw - tw_dt)
                /\ is_abandoned' =
                      IsAbandoned(is_abandoned_mad(tw_history, now_tw - tw_dt),
                                  get_max_interval(tw_history), now_tw - tw_dt)
    /\ UNCHANGED <<now_tw, tw_history, collect_vars, version_vars>>

NextStale == CardHeader

SpecStale == InitStale /\ [][NextStale]_vars

(***************************************************************************)
(* version_to_tuple (lines 22-30).  A version string is a sequence of      *)
(* characters; "sup2" is the superscript two, for which str.isdigit() is   *)
(* true and int() raises ValueError.  NotAStr is an argument that is no    *)
(* str (os: null in the JSON), for which len() raises.                     *)
(***************************************************************************)
NotAStr == <<"<None>">>
DecimalDigits == <<"0", "1", "2", "3", "4", "5", "6", "7", "8", "9">>
IsDecimal(c) == \E i \in 1..Len(DecimalDigits) : DecimalDigits[i] = c
DigitValue(c) == (CHOOSE i \in 1..Len(DecimalDigits) : DecimalDigits[i] = c) - 1

\* x.isdigit()
IsDigit(x) == x # <<>> /\ \A i \in 1..Len(x) : IsDecimal(x[i]) \/ x[i] = "sup2"

\* int(x) raises ValueError
IntRaises(x) == \E i \in 1..Len(x) : ~IsDecimal(x[i])

\* int(x) for a string of decimal digits
RECURSIVE IntOf(_)
IntOf(x) ==
    IF x = <<>> THEN 0 ELSE 10 * IntOf(SubSeq(x, 1, Len(x) - 1)) + DigitValue(x[Len(x)])

\* s.split(sep): the segments between the separators, empty ones included
RECURSIVE Split(_, _)
Split(s, sep) ==
    IF \A i \in 1..Len(s) : s[i] # sep THEN <<s>>
    ELSE LET i == CHOOSE j \in 1..Len(s) :
                    s[j] = sep /\ \A l \in 1..(j - 1) : s[l] # sep
         IN  <<SubSeq(s, 1, i - 1)>> \o Split(SubSeq(s, i + 1, Len(s)), sep)

\* lines 25-27: clean_v
CleanVersion(v) ==
    LET cut == IF Len(v) > 7 THEN SubSeq(v, 1, Len(v) - 7) ELSE v
        bare == IF Len(cut) >= 2 /\ SubSeq(cut, 1, 2) = <<"O", "S">>
                THEN SubSeq(cut, 3, Len(cut)) ELSE cut
    IN  Strip(bare, ".")

\* line 28, when nothing raises
DigitTuple(digits) == [i \in 1..Len(digits) |-> IntOf(digits[i])]

\* lines 22-30
version_to_tuple(v) ==
    IF v = NotAStr THEN <<0>>
    ELSE LET digits == SelectSeq(Split(CleanVersion(v), "."), IsDigit)
         IN  IF \E i \in 1..Len(digits) : IntRaises(digits[i]) THEN <<0>>
             ELSE DigitTuple(digits)

(***************************************************************************)
(* SpecVersion: one call of version_to_tuple                               *)
(***************************************************************************)
MaxVersionLen == 4  \* characters between the "OS" marker and the build tag

VersionChars == {"0", "1", ".", "g", "sup2"}
BuildTag == <<"U", "N", "A", "T", "W", "X", "M">>
VersionInputs ==
    {NotAStr}
    \cup {marker \o body \o tag :
            marker \in {<<>>, <<"O", "S">>},
            body \in SeqsUpTo(VersionChars, MaxVersionLen),
            tag \in {<<>>, BuildTag, <<".">> \o BuildTag}}

InitVersion ==
    /\ pc = "call"
    /\ v_str \in VersionInputs
    /\ v_tuple = <<>>
    /\ json_files = <<>>
    /\ IdleCollect
    /\ IdleStale

ParseVersion ==
    /\ pc = "call"
    /\ v_tuple' = version_to_tuple(v_str)
    /\ pc' = "returned"
    /\ UNCHANGED <<v_str, collect_vars, stale_vars>>

NextVersion == ParseVersion

SpecVersion == InitVersion /\ [][NextVersion]_vars

(***************************************************************************)
(* Properties of the collection                                            *)
(***************************************************************************)
\* index in devices_map of the device of the current file
Current == KeyIndex(devices_map, device_code)

\* this step is one iteration of the loop over the branches; Taken is its branch
TookBranch == pc = "branches" /\ Len(branches') = Len(branches) + 1
Taken == branches'[Len(branches')]

\* the branch names a channel: it is a JSON object, so lines 144-160 ran
Classified(branch) == branch.fault # "branch"
NameOf(branch) == GetName(branch.name, <<>>)

Codes(list) == {list[i].code : i \in 1..Len(list)}

\* C1: after the last file, a device is in final_list if and only if its
\* entry of devices_map has a target timeline, each such device once and as
\* its entry stands; all_brands holds the brands of those devices only, so a
\* device without a target timeline adds neither itself nor its brand,
\* whatever its reference and other timelines.
C1_RetainedIffTarget ==
    pc = "done" =>
        /\ \A i \in 1..Len(devices_map) :
              devices_map[i].code \in Codes(final_list) <=> devices_map[i].tw # None
        /\ \A j \in 1..Len(final_list) :
              \E i \in 1..Len(devices_map) : final_list[j] = devices_map[i]
        /\ \A j, l \in 1..Len(final_list) :
              final_list[j].code = final_list[l].code => j = l
        /\ all_brands = {devices_map[i].brand :
                            i \in {l \in 1..Len(devices_map) : devices_map[l].tw # None}}

\* a device with a reference and an other timeline was dropped, with a brand
\* that no kept device has, and another device was kept
C1_Witness ==
    /\ pc = "done"
    /\ \E i, j \in 1..Len(devices_map) :
          /\ devices_map[i].tw = None
          /\ devices_map[i].global # None
          /\ devices_map[i].others # <<>>
          /\ devices_map[i].code \notin Codes(final_list)
          /\ devices_map[i].brand \notin all_brands
          /\ devices_map[j].tw # None
          /\ devices_map[j].code \in Codes(final_list)

\* C8: an iteration over a branch whose roms are empty leaves the entry of
\* the device as it was: target, reference, others and brand.
C8_EmptyBranchLeavesDevice ==
    [][(TookBranch /\ Taken.fault = "none" /\ Taken.roms = <<>>)
        => devices_map' = devices_map]_vars

\* C9 as stated: the brand of a device changes only in an iteration over a
\* branch that is named TARGET_TW and has a brand field, and becomes that
\* field; every other iteration, a target branch without the field among
\* them, leaves it.
C9_BrandOnlyFromBrandField ==
    [][\A i \in 1..Len(devices_map) :
        devices_map'[i].brand =
            IF /\ TookBranch /\ i = Current /\ Classified(Taken)
               /\ NameOf(Taken) = TARGET_TW
               /\ Taken.brand \notin {NoField, ""}
            THEN Taken.brand
            ELSE devices_map[i].brand]_vars

\* C9, amended: the brand of a device changes only in an iteration over a
\* branch named TARGET_TW, where it becomes the brand field when that is not
\* empty and "Xiaomi" when the branch has no brand field; a target branch
\* with an empty brand field, every reference or other branch, and every
\* other step leave it; a new entry starts with "Other".
C9_BrandFromTargetBranch ==
    [][/\ \A i \in 1..Len(devices_map) :
            devices_map'[i].brand =
                IF /\ TookBranch /\ i = Current /\ Classified(Taken)
                   /\ NameOf(Taken) = TARGET_TW
                   /\ Taken.brand # ""
                THEN (IF Taken.brand = NoField THEN "Xiaomi" ELSE Taken.brand)
                ELSE devices_map[i].brand
       /\ \A i \in (Len(devices_map) + 1)..Len(devices_map') :
            devices_map'[i].brand = "Other"]_vars

\* a target branch without a brand field was just taken and the brand of the
\* device is "Xiaomi"
C9_Witness ==
    /\ pc = "branches"
    /\ branches # <<>>
    /\ LET last == branches[Len(branches)]
       IN  /\ last.fault = "none"
           /\ last.name = TARGET_TW
           /\ last.brand = NoField
    /\ devices_map[Current].brand = "Xiaomi"

\* the target (slot "tw") or the reference (slot "global") of an entry
Slot(entry, target_type) == IF target_type = "tw" THEN entry.tw ELSE entry.global
Builds(roms) == {Rom(roms[i].k, roms[i].v) : i \in 1..Len(roms)}
Range(history) == {history[i] : i \in 1..Len(history)}

\* the slot holds the builds of roms and no other
HoldsOnly(slot, roms) ==
    /\ slot # None
    /\ Len(slot[1].history) = Len(roms)
    /\ Range(slot[1].history) = Builds(roms)
    /\ slot[1].latest = slot[1].history[1]

\* C10: an iteration over a branch named TARGET_TW (or TARGET_GLOBAL) that
\* has builds leaves in the target (reference) exactly the builds of that
\* branch, whatever the target (reference) held before; one without builds
\* leaves it; and no other step changes the target or the reference.  So
\* the stored timeline is that of the last such branch with a build.
C10_LastBranchOverwrites ==
    [][\A i \in 1..Len(devices_map) : \A t \in {"tw", "global"} :
        IF /\ TookBranch /\ i = Current /\ Taken.fault = "none"
           /\ TargetType(NameOf(Taken)) = t
           /\ Taken.roms # <<>>
        THEN HoldsOnly(Slot(devices_map'[i], t), Taken.roms)
        ELSE Slot(devices_map'[i], t) = Slot(devices_map[i], t)]_vars

\* the first file had two target branches with different builds, and the
\* target holds those of the second
C10_Witness ==
    /\ pc = "branches"
    /\ nfiles = 1
    /\ Len(branches) = 2
    /\ \A i \in 1..2 :
          /\ branches[i].fault = "none"
          /\ branches[i].name = TARGET_TW
          /\ branches[i].roms # <<>>
    /\ Builds(branches[1].roms) # Builds(branches[2].roms)
    /\ HoldsOnly(devices_map[Current].tw, branches[2].roms)

(***************************************************************************)
(* Properties of a whole run over a fixed input (SpecBatch)                *)
(***************************************************************************)
\* processing of the file raises somewhere: at load time or in a branch
Fails(data) ==
    \/ data.load_error
    \/ \E i \in 1..Len(data.branches) : data.branches[i].fault # "none"
Succeeds(data) == ~Fails(data)

\* C2: the final list and the brand set are those of the input without the
\* files whose processing raised, at load time or part-way through the
\* branches.
C2_FailedFileContributesNothing ==
    pc = "done" =>
        /\ final_list = Collected(SelectSeq(json_files, Succeeds))
        /\ all_brands = AllBrands(Collected(SelectSeq(json_files, Succeeds)))

\* the files in every order
Reorderings(files) ==
    {[i \in 1..Len(files) |-> files[f[i]]] :
     f \in {g \in [1..Len(files) -> 1..Len(files)] :
                \A i, j \in 1..Len(files) : g[i] = g[j] => i = j}}

\* C6 as stated: the final list is the same for every order in which the
\* files are processed.
C6_OrderIndependent ==
    pc = "done" => \A files \in Reorderings(json_files) : Collected(files) = final_list

\* no two files that load name the same device
DistinctDevices(files) ==
    \A i, j \in 1..Len(files) :
        (/\ ~files[i].load_error /\ ~files[j].load_error
         /\ GetStr(files[i].device, "") = GetStr(files[j].device, "")) => i = j

\* no two devices of the list have the same latest target release
DistinctLatest(list) ==
    \A i, j \in 1..Len(list) :
        list[i].tw[1].latest.release = list[j].tw[1].latest.release => i = j

\* C6, amended: when no two files name the same device and no two devices
\* of the final list have the same latest target release, the final list is
\* the same for every order in which the files are processed.  (Devices
\* with equal latest target releases keep the order in which their files
\* were processed.)
C6_OrderIndependentWithoutTies ==
    (pc = "done" /\ DistinctDevices(json_files) /\ DistinctLatest(final_list))
        => \A files \in Reorderings(json_files) : Collected(files) = final_list

\* two devices were kept, and the sort put the one processed second first
C6_Witness ==
    /\ pc = "done"
    /\ Len(json_files) = 2
    /\ DistinctDevices(json_files)
    /\ Len(final_list) = 2
    /\ DistinctLatest(final_list)
    /\ final_list[1].code = GetStr(json_files[2].device, "")

(***************************************************************************)
(* Properties of version_to_tuple (SpecVersion)                            *)
(***************************************************************************)
\* v is a str without a segment of decimal digits once the build tag, the
\* "OS" marker and the outer dots are stripped
NoDigitSegment(v) ==
    /\ v # NotAStr
    /\ LET segments == Split(CleanVersion(v), ".")
       IN  \A i \in 1..Len(segments) :
              segments[i] = <<>> \/ \E j \in 1..Len(segments[i]) : ~IsDecimal(segments[i][j])

\* C3: for a string without a digit segment (the empty string, letters
\* only, the build tag alone) version_to_tuple returns (0,), never ().
C3_NoDigitSegmentGivesZero ==
    (pc = "returned" /\ NoDigitSegment(v_str)) => v_tuple = <<0>>

(***************************************************************************)
(* Properties of the staleness test (SpecStale)                            *)
(***************************************************************************)
\* the builds of the history whose release parses
Dated(history) == {i \in 1..Len(history) : Strptime(history[i].release) # NoDate}

\* the gaps, in days, between consecutive dated builds that are not negative
Gaps(history) ==
    LET dates == parse_history_dates(history)
    IN  {dates[i] - dates[i + 1] : i \in 1..(Len(dates) - 1)} \cap Nat

C5_ConstantGapThreshold ==
    pc = "marked" =>
        \A g \in Gaps(tw_history) :
            Gaps(tw_history) = {g} => (mad_result <=> days_ago - g >= 6)

\* three builds 30 days apart: not stale after 35 days
C5_Witness ==
    /\ pc = "marked"
    /\ Len(tw_history) >= 3
    /\ Cardinality(Dated(tw_history)) = Len(tw_history)
    /\ Gaps(tw_history) = {30}
    /\ days_ago = 35
    /\ ~mad_result

\* C7: is_abandoned_mad is false when the history has fewer than two
\* builds, fewer than two dated builds, or no gap that is not negative,
\* whatever days_since_last is.
C7_TooShortIsNeverStale ==
    (/\ pc = "marked"
     /\ \/ Len(tw_history) < 2
        \/ Cardinality(Dated(tw_history)) < 2
        \/ Gaps(tw_history) = {})
        => ~mad_result

\* two dated builds whose only gap is negative, 400 days later
C7_Witness ==
    /\ pc = "marked"
    /\ Cardinality(Dated(tw_history)) >= 2
    /\ Gaps(tw_history) = {}
    /\ days_ago >= 400
    /\ ~mad_result

(***************************************************************************)
(* SpecTimeline: one device file whose first branch carries every          *)
(* combination of release values: absent, "" (no date), two zero-padded    *)
(* dates and the unpadded "1970-1-20"; the branches after it are those of  *)
(* Spec.                                                                   *)
(***************************************************************************)
TimelineReleases == {NoRelease, 0, 2, 3, 5}

\* the roms dicts of up to MaxRoms items, with the keys of RomItems
TimelineRoms ==
    UNION {{[i \in 1..n |->
                [k |-> RomItems[i].k,
                 v |-> [RomItems[i].v EXCEPT !.release = rs[i]]]] :
             rs \in [1..n -> TimelineReleases]} : n \in 0..MaxRoms}

TimelineBranches ==
    {b \in Branches : b.fault # "none" /\ b.brand = NoField}
    \cup {[fault |-> "none", name |-> n, brand |-> NoField, roms |-> r] :
            n \in BranchNames, r \in TimelineRoms}

TimelineHeads == {h \in FileHeads : h.load_error \/ h.device # NoField}

OpenRecord == /\ nfiles = 0
              /\ \E data \in TimelineHeads : OpenWith(data)

\* the branches after the first: those of Branches without a brand field
PlainBranches == {b \in Branches : b.brand = NoField}

TakeRecordBranch ==
    /\ Len(branches) < MaxBranches
    /\ \E branch \in (IF branches = <<>> THEN TimelineBranches ELSE PlainBranches) :
          TakeWith(branch)

NextTimeline == OpenRecord \/ TakeRecordBranch \/ EndOfBranches \/ FilterAndSort

SpecTimeline == Init /\ [][NextTimeline]_vars

(***************************************************************************)
(* Properties of the stored timelines (SpecTimeline)                       *)
(***************************************************************************)
\* the timelines of an entry: target, reference and every one of others
Timelines(entry) ==
    {[latest |-> t.latest, history |-> t.history] :
        t \in Range(entry.tw) \cup Range(entry.global) \cup Range(entry.others)}

\* the timeline an iteration over a branch of this type stores
StoredBy(entry, target_type) ==
    IF target_type = "other" THEN entry.others[Len(entry.others)]
    ELSE Slot(entry, target_type)[1]

\* the release values of the shape YYYY-MM-DD, zero-padded
ZeroPadded == {r \in Releases : r >= DefaultRelease /\ r < Len(ReleaseTable) - 1}

\* history is not empty, in descending order of the release value, its
\* zero-padded dates in descending order of the date, no build dated after
\* 1970-01-01 behind a build that carries the default, and latest its first
WellFormed(t) ==
    /\ t.history # <<>>
    /\ t.latest = t.history[1]
    /\ \A i, j \in 1..Len(t.history) : i < j =>
          /\ t.history[i].release >= t.history[j].release
          /\ (t.history[i].release \in ZeroPadded /\ t.history[j].release \in ZeroPadded)
                => Strptime(t.history[i].release) >= Strptime(t.history[j].release)
          /\ t.history[i].release = DefaultRelease
                => Strptime(t.history[j].release) <= Strptime(DefaultRelease)

\* C11: in every state each stored timeline (target, reference, each of
\* others) has a history that is not empty, sorted by release descending
\* with the builds defaulted to 1970-01-01 behind every later build, and
\* latest = history[0]; an iteration over a branch with builds stores one
\* build per item of its roms, none dropped, and every step keeps the
\* timelines of others that were stored before.
C11_TimelinesSortedAndWhole ==
    /\ [](\A i \in 1..Len(devices_map) :
            \A t \in Timelines(devices_map[i]) : WellFormed(t))
    /\ [][/\ (TookBranch /\ Taken.fault = "none" /\ Taken.roms # <<>>) =>
              LET t == StoredBy(devices_map'[Current], TargetType(NameOf(Taken)))
              IN  /\ Len(t.history) = Len(Taken.roms)
                  /\ Range(t.history) = Builds(Taken.roms)
          /\ \A i \in 1..Len(devices_map) :
                Range(devices_map[i].others) \subseteq Range(devices_map'[i].others)]_vars

\* the first branch, an other one, listed a build without release before a
\* dated one, and its history holds both, the dated build first; the target
\* was stored after it
C11_Witness ==
    /\ pc = "branches"
    /\ Len(branches) = 2
    /\ devices_map[Current].tw # None
    /\ branches[1].fault = "none"
    /\ TargetType(NameOf(branches[1])) = "other"
    /\ Len(branches[1].roms) = 2
    /\ branches[1].roms[1].v.release = NoRelease
    /\ branches[1].roms[2].v.release \in ZeroPadded \ {DefaultRelease}
    /\ Len(devices_map[Current].others) = 1
    /\ devices_map[Current].others[1].history =
          <<Rom(branches[1].roms[2].k, branches[1].roms[2].v),
            Rom(branches[1].roms[1].k, branches[1].roms[1].v)>>

(***************************************************************************)
(* SpecLabel: one device file with one branch, whose name is put together  *)
(* from up to MaxLabelPieces pieces: the common prefix, the suffix words,  *)
(* a blank, keys of REGION_MAPPING, the literal names of lines 43-50 and a *)
(* character no rule knows.                                                *)
(***************************************************************************)
MaxLabelPieces == 3

LabelPieces ==
    {Prefix, ZhengShiBan, Ban, <<" ">>, <<"X">>, <<"ou", "zhou">>,
     <<"E", "E", "A">>, <<"kai", "fa">>, <<"B", "e", "t", "a">>,
     <<"zhong", "guo">>, <<"da", "lu">>, <<"yun", "ying", "shang">>}

\* the pieces joined, "".join(pieces)
RECURSIVE Join(_)
Join(pieces) == IF pieces = <<>> THEN <<>> ELSE Head(pieces) \o Join(Tail(pieces))

Labels == {Join(pieces) : pieces \in SeqsUpTo(LabelPieces, MaxLabelPieces)}

\* a branch that is no JSON object, and the branches without a name or with
\* a name of Labels, without builds or with one
LabelBranches ==
    {b \in Branches : b.fault = "branch"}
    \cup {[fault |-> "none", name |-> n, brand |-> NoField, roms |-> r] :
            n \in Labels \cup {NoName}, r \in {<<>>, SubSeq(RomItems, 1, 1)}}

TakeLabelledBranch == /\ branches = <<>>
                      /\ \E branch \in LabelBranches : TakeWith(branch)

NextLabel == OpenRecord \/ TakeLabelledBranch \/ EndOfBranches \/ FilterAndSort

SpecLabel == Init /\ [][NextLabel]_vars

(***************************************************************************)
(* Properties of the stored labels (SpecLabel)                             *)
(***************************************************************************)
\* sub occurs in s
Contains(s, sub) ==
    \E i \in 1..(Len(s) - Len(sub) + 1) : SubSeq(s, i, i + Len(sub) - 1) = sub

\* the label without the prefix, and its core token: without the suffix
\* words and the blanks around it
Unprefixed(raw) == Replace(raw, Prefix, <<>>)
CoreToken(raw) ==
    Strip(Replace(Replace(Unprefixed(raw), ZhengShiBan, <<>>), Ban, <<>>), " ")

\* no rule of the lexicon applies: the label is none of the three literal
\* names, its core token is neither spelling of EEA, and no key of
\* REGION_MAPPING occurs in the core token
NoLexiconHit(raw) ==
    /\ Unprefixed(raw) \notin
          {ZhengShiBan, <<"kai", "fa", "ban">>, <<"B", "e", "t", "a">>}
    /\ CoreToken(raw) \notin {<<"E", "E", "A">>, <<"ou", "zhou", "E", "E", "A">>}
    /\ \A i \in 1..Len(REGION_MAPPING) : ~Contains(CoreToken(raw), REGION_MAPPING[i][1])

\* the label of the timeline appended last to others
LastLabel(entry) == entry.others[Len(entry.others)].label

\* C12: an iteration over an other branch with builds and a raw label that
\* is not empty stores a label that is not empty: what get_region_label
\* returned when that is not empty, the raw label when it is empty; and
\* for a raw label without a lexicon hit get_region_label returns the core
\* token, so that a core token that is not empty is the stored label.
C12_OtherLabelNeverBlank ==
    [][(/\ TookBranch /\ Taken.fault = "none"
        /\ TargetType(NameOf(Taken)) = "other"
        /\ Taken.roms # <<>>
        /\ NameOf(Taken) # <<>>) =>
          LET raw == NameOf(Taken)
              label == LastLabel(devices_map'[Current])
          IN  /\ Len(devices_map'[Current].others) = Len(devices_map[Current].others) + 1
              /\ label # <<>>
              /\ label = IF get_region_label(raw) # <<>>
                         THEN get_region_label(raw) ELSE raw
              /\ NoLexiconHit(raw) =>
                    /\ get_region_label(raw) = CoreToken(raw)
                    /\ CoreToken(raw) # <<>> => label = CoreToken(raw)]_vars

\* the branch was named by the prefix and a suffix word only, so that the
\* normalization gave the empty string, and the raw label is stored
C12_Witness ==
    /\ pc = "branches"
    /\ Len(branches) = 1
    /\ branches[1].fault = "none"
    /\ branches[1].roms # <<>>
    /\ NameOf(branches[1]) # <<>>
    /\ get_region_label(NameOf(branches[1])) = <<>>
    /\ Len(devices_map[Current].others) = 1
    /\ LastLabel(devices_map[Current]) = NameOf(branches[1])

====
